---- MODULE Spec2Model ----
(***************************************************************************)
(* ghee: intent classification and retention engine.                       *)
(*                                                                         *)
(* A DateTime<FixedOffset> is a record [t, off]: t is the instant, counted *)
(* in ticks of 1/Res second since 2015-01-01T00:00:00Z, off is the UTC     *)
(* offset in seconds.  chrono compares, orders and hashes a DateTime by    *)
(* its instant alone, so the model compares the t fields.                  *)
(***************************************************************************)
EXTENDS Integers, Sequences, FiniteSets, TLC

\* ticks per second: the clock (Local::now) has a sub-second part, the
\* timestamps parsed from snapshot names have none
Res == 2

----------------------------------------------------------------------------
(* chrono calendar arithmetic (proleptic Gregorian, ISO-8601 weeks)        *)

\* day number of a civil date (days since 1970-01-01)
DaysFromCivil(y, m, d) ==
  LET yy  == IF m <= 2 THEN y - 1 ELSE y
      era == yy \div 400
      yoe == yy - era * 400
      mp  == IF m > 2 THEN m - 3 ELSE m + 9
      doy == (153 * mp + 2) \div 5 + d - 1
      doe == yoe * 365 + yoe \div 4 - yoe \div 100 + doy
  IN  era * 146097 + doe - 719468

\* civil date [y, m, d] of a day number
CivilFromDays(z) ==
  LET zz  == z + 719468
      era == zz \div 146097
      doe == zz - era * 146097
      yoe == (doe - doe \div 1460 + doe \div 36524 - doe \div 146096) \div 365
      doy == doe - (365 * yoe + yoe \div 4 - yoe \div 100)
      mp  == (5 * doy + 2) \div 153
      d   == doy - (153 * mp + 2) \div 5 + 1
      m   == IF mp < 10 THEN mp + 3 ELSE mp - 9
      y   == yoe + era * 400 + (IF m <= 2 THEN 1 ELSE 0)
  IN  [y |-> y, m |-> m, d |-> d]

EpochDay == DaysFromCivil(2015, 1, 1)

\* Weekday of a day number, Mon = 0 .. Sun = 6
WeekdayOf(day) == (day + 3) % 7

Mon == 0
Sun == 6

\* Monday of ISO week 1 of a year: the week that holds January 4th (a table
\* over the years the model's instants lie in)
IsoWeek1Mondays ==
  [y \in 2016..2028 |-> LET jan4 == DaysFromCivil(y, 1, 4) IN jan4 - WeekdayOf(jan4)]

IsoWeek1Monday(y) == IsoWeek1Mondays[y]

\* number of ISO weeks of a year (52 or 53)
NIsoWeeksOf ==
  [y \in 2016..2027 |-> (IsoWeek1Monday(y + 1) - IsoWeek1Monday(y)) \div 7]

NIsoWeeks(y) == NIsoWeeksOf[y]

\* TimeZone::isoywd_opt: <<day number>>, or <<>> when the year has no such week
isoywd_opt(y, w, wd) ==
  IF 1 <= w /\ w <= NIsoWeeks(y)
    THEN << IsoWeek1Monday(y) + 7 * (w - 1) + wd >>
    ELSE << >>

\* Date::and_hms in a fixed offset: the DateTime of a local date and time
and_hms(off, day, h, mi, s) ==
  [t   |-> ((day - EpochDay) * 86400 + h * 3600 + mi * 60 + s - off) * Res,
   off |-> off]

\* the local (naive) fields of a DateTime
LocalTicks(ts) == ts.t + ts.off * Res
LocalDay(ts)   == EpochDay + (LocalTicks(ts) \div (86400 * Res))
LocalHour(ts)  == (LocalTicks(ts) % (86400 * Res)) \div (3600 * Res)
LocalYear(ts)  == CivilFromDays(LocalDay(ts)).y

----------------------------------------------------------------------------
(* duration.rs: time truncation                                            *)

duration_trunc_hour(ts) == and_hms(ts.off, LocalDay(ts), LocalHour(ts), 0, 0)

duration_trunc_day(ts) == and_hms(ts.off, LocalDay(ts), 0, 0, 0)

\* a month truncation that keeps the day of the month
TruncMonthKeepsDay(ts) == and_hms(ts.off, LocalDay(ts), 0, 0, 0)

duration_trunc_month(ts) ==
  LET c == CivilFromDays(LocalDay(ts))
  IN  and_hms(ts.off, DaysFromCivil(c.y, c.m, 1), 0, 0, 0)

duration_trunc_year(ts) ==
  and_hms(ts.off, DaysFromCivil(LocalYear(ts), 1, 1), 0, 0, 0)

Ok(v)      == [k |-> "ok", v |-> v]
Panic(why) == [k |-> "panic", v |-> why]

\* a test of the lower end of the week alone
WeekHoldsFrom(ts, y, w) ==
  and_hms(ts.off, isoywd_opt(y, w, Mon)[1], 0, 0, 0).t <= ts.t

\* the test `mon <= *ts && *ts <= sun` for week w of year y, which exists
WeekHolds(ts, y, w) ==
  LET mon == and_hms(ts.off, isoywd_opt(y, w, Mon)[1], 0, 0, 0)
      sun == and_hms(ts.off, isoywd_opt(y, w, Sun)[1], 23, 59, 59)
  IN  mon.t <= ts.t /\ ts.t <= sun.t

WeekStart(ts, y, w) == and_hms(ts.off, isoywd_opt(y, w, Mon)[1], 0, 0, 0)

\* "first week of next year?" and the final panic
TruncWeekNextYear(ts, year) ==
  IF isoywd_opt(year + 1, 1, Mon) = << >> THEN Panic("isoywd")
  ELSE IF WeekHolds(ts, year + 1, 1) THEN Ok(WeekStart(ts, year + 1, 1))
  ELSE Panic("did not find week")

\* "any week this year?": for i in 1..=53, isoywd unwraps week i
RECURSIVE TruncWeekScan(_, _, _)
TruncWeekScan(ts, year, i) ==
  IF i > 53 THEN TruncWeekNextYear(ts, year)
  ELSE IF isoywd_opt(year, i, Mon) = << >> THEN Panic("isoywd")
  ELSE IF WeekHolds(ts, year, i) THEN Ok(WeekStart(ts, year, i))
  ELSE TruncWeekScan(ts, year, i + 1)

\* "last week of last year? (sometimes years have 53 weeks)": isoywd_opt
TruncWeekPrev53(ts, year) ==
  IF isoywd_opt(year - 1, 53, Mon) # << >> /\ WeekHolds(ts, year - 1, 53)
    THEN Ok(WeekStart(ts, year - 1, 53))
    ELSE TruncWeekScan(ts, year, 1)

duration_trunc_week(ts) ==
  LET year == LocalYear(ts)
  IN  IF isoywd_opt(year - 1, 52, Mon) = << >> THEN Panic("isoywd")
      ELSE IF WeekHolds(ts, year - 1, 52) THEN Ok(WeekStart(ts, year - 1, 52))
      ELSE TruncWeekPrev53(ts, year)

----------------------------------------------------------------------------
(* duration.rs, retention.rs: the duration / retention grammar.  A string   *)
(* is a sequence of characters, each a one-character string; "u0663" is a  *)
(* non-ASCII decimal digit and "u00a0" a non-ASCII white space.            *)

AsciiDigits == {"0", "1", "2", "3", "4", "5", "6", "7", "8", "9"}

\* the regex classes \d and \s (Unicode aware)
ReDigit(c) == c \in AsciiDigits \cup {"u0663"}
ReSpace(c) == c \in {" ", "u00a0"}

DigitValue(c) ==
  CASE c = "0" -> 0 [] c = "1" -> 1 [] c = "2" -> 2 [] c = "3" -> 3
    [] c = "4" -> 4 [] c = "5" -> 5 [] c = "6" -> 6 [] c = "7" -> 7
    [] c = "8" -> 8 [] c = "9" -> 9

\* the pattern with the day ahead of the hour
UnitsDayFirst == << "d", "h", "w", "m", "y" >>

Units == << "h", "d", "w", "m", "y" >>

\* the end of the run of c-class characters of s that starts at p
RECURSIVE DigitsEnd(_, _)
DigitsEnd(s, p) ==
  IF p <= Len(s) /\ ReDigit(s[p]) THEN DigitsEnd(s, p + 1) ELSE p

RECURSIVE SpaceEnd(_, _)
SpaceEnd(s, p) ==
  IF p <= Len(s) /\ ReSpace(s[p]) THEN SpaceEnd(s, p + 1) ELSE p

\* ^(?:(\d+)h)?\s*(?:(\d+)d)?\s*(?:(\d+)w)?\s*(?:(\d+)m)?\s*(?:(\d+)y)?$
\* matched from position p for the groups u..5; caps are the groups so far,
\* each << >> (no capture) or << digits >>.  << >> as a result: no match.
RECURSIVE ReMatchFrom(_, _, _, _)
ReMatchFrom(s, p, u, caps) ==
  IF u > 5 THEN (IF p = Len(s) + 1 THEN << caps >> ELSE << >>)
  ELSE
    LET q    == DigitsEnd(s, p)
        has  == q > p /\ q <= Len(s) /\ s[q] = Units[u]
        cap  == IF has THEN << SubSeq(s, p, q - 1) >> ELSE << >>
        next == IF has THEN q + 1 ELSE p
        skip == IF u < 5 THEN SpaceEnd(s, next) ELSE next
    IN  ReMatchFrom(s, skip, u + 1, Append(caps, cap))

re_captures(s) == ReMatchFrom(s, 1, 1, << >>)

\* The integer widths.  TLC's integers end at 2^31 - 1, so the model keeps
\* the structure of the two widths and not their size: i64 is the signed
\* range -I64_MAX - 1 .. I64_MAX, usize the unsigned range of the same
\* width, and Duration holds whole seconds of the i64 range (chrono: i64
\* milliseconds).
I64_MAX == 268435455
USIZE_MAX == 2 * I64_MAX + 1
DurationMaxSecs == I64_MAX

\* str::parse for an integer type with greatest value max: << >> on a
\* character that is no ASCII digit and on a value above max
RECURSIVE ParseDigits(_, _, _)
ParseDigits(ds, acc, max) ==
  IF ds = << >> THEN << acc >>
  ELSE IF Head(ds) \notin AsciiDigits THEN << >>
  ELSE IF acc > (max - DigitValue(Head(ds))) \div 10 THEN << >>
  ELSE ParseDigits(Tail(ds), acc * 10 + DigitValue(Head(ds)), max)

Err == [k |-> "err", v |-> "DurationParseError"]

\* the five components, each << >> (parse error) or << n >>; absent: << 0 >>
Components(caps, max) ==
  [u \in 1..5 |-> IF caps[u] = << >> THEN << 0 >>
                  ELSE ParseDigits(caps[u][1], 0, max)]

\* Duration::hours, days, weeks as ticks
TicksPerHour == 3600 * Res

\* What the build decides: an i64 product that overflows panics (debug
\* assertions) or wraps; Duration + Duration beyond Duration::MAX panics
\* (checked_add) or is returned unchecked, depending on the chrono version.
Builds == [mul : {"panic", "wrap"}, add : {"panic", "unchecked"}]

\* k * n modulo 2^w, as a value of the signed range
RECURSIVE MulMod(_, _)
MulMod(k, n) ==
  IF k = 0 THEN 0
  ELSE (2 * MulMod(k \div 2, n) + (k % 2) * n) % (USIZE_MAX + 1)

\* 4 * m, 365 * y in i64: << >> is the overflow panic, and the wrapped
\* product is MulMod as a value of the signed range
I64Mul(build, k, n) ==
  IF n <= I64_MAX \div k THEN << k * n >>
  ELSE IF build.mul = "panic" THEN << >>
  ELSE LET r == MulMod(k, n)
       IN  << IF r > I64_MAX THEN r - (USIZE_MAX + 1) ELSE r >>

Abs(n) == IF n < 0 THEN 0 - n ELSE n

\* the factor of each component and the seconds of its Duration constructor:
\* hours, days, weeks, weeks(4 * m), days(365 * y)
UnitFactor == << 1, 1, 1, 4, 365 >>
UnitSecs == << 3600, 86400, 604800, 604800, 86400 >>

\* Duration::hours / days / weeks of n: the seconds, or << >> for the panic
\* "out of bounds" of checked_mul and of the range check of Duration::seconds
DurationOf(u, n) ==
  IF Abs(n) > DurationMaxSecs \div UnitSecs[u] THEN << >>
  ELSE << n * UnitSecs[u] >>

\* the five "if let Some" blocks from component u on; d is the duration so
\* far in seconds
RECURSIVE DurationFrom(_, _, _, _)
DurationFrom(build, caps, u, d) ==
  IF u > 5
    THEN IF Abs(d) <= DurationMaxSecs THEN Ok(d * Res)
         ELSE [k |-> "ok", v |-> d, beyond |-> "Duration::MAX, in seconds"]
  ELSE IF caps[u] = << >> THEN DurationFrom(build, caps, u + 1, d)
  ELSE
    LET n == ParseDigits(caps[u][1], 0, I64_MAX)
        x == IF n = << >> THEN << >> ELSE I64Mul(build, UnitFactor[u], n[1])
        t == IF x = << >> THEN << >> ELSE DurationOf(u, x[1])
    IN  IF n = << >> THEN Err
        ELSE IF x = << >> THEN Panic("attempt to multiply with overflow")
        ELSE IF t = << >> THEN Panic("Duration out of bounds")
        ELSE IF Abs(d + t[1]) > DurationMaxSecs /\ build.add = "panic"
          THEN Panic("Duration + Duration overflowed")
        ELSE DurationFrom(build, caps, u + 1, d + t[1])

duration_from_str_in(build, s) ==
  LET m == re_captures(s)
  IN  IF m = << >> THEN Err ELSE DurationFrom(build, m[1], 1, 0)

\* duration_from_str of a build that checks every overflow; the Timespans of
\* a pass are small, where no build makes a difference
duration_from_str(s) ==
  duration_from_str_in([mul |-> "panic", add |-> "panic"], s)

Retention_from_str(s) ==
  LET m == re_captures(s)
  IN  IF m = << >> THEN Err
      ELSE LET c == Components(m[1], USIZE_MAX)
           IN  IF \E u \in 1..5 : c[u] = << >> THEN Err
               ELSE Ok([h |-> c[1][1], d |-> c[2][1], w |-> c[3][1],
                        m |-> c[4][1], y |-> c[5][1]])

----------------------------------------------------------------------------
(* State                                                                   *)

VARIABLES
  jobs,         \* the configured jobs, a sequence of Job
  intents,      \* the intents of the run, a sequence of Intent
  clock,        \* the instant Local::now() returns, in ticks
  ticks,        \* how often the clock has advanced during the pass
  pc,           \* position of delete_to_keep_intents
  j,            \* index of the job the loop is at
  job_intents,  \* the rest of the iterator job_intents: << [ts, i], ... >>
  taken,        \* elements the min-preserve adapter has yielded so far
  dur,          \* duration_from_str of the job's Timespan
  timebins,     \* the job's TimeBins
  keepq,        \* set_keep: the slots of each class not yet visited
  warned,       \* the warn! lines written: << [job, stage], ... >>
  intents0,     \* history: the intents as gathered
  cands,        \* history: the job's candidates when its min stage began
  minKept,      \* history: per job pass, the intents its min stage promoted
  tsRead,       \* history: the intents whose timestamp() was called
  fedLog,       \* history: the store calls, << [i, pass, slot], ... >>
  nowRead,      \* history: the instants the job's take_while read
  wk_in,        \* duration_trunc_week: the argument
  wk_out,       \* duration_trunc_week: the outcome
  nm,           \* Intent::timestamp: the directory name it is called for
  nm_out,       \* Intent::timestamp: the outcome
  args,         \* a function called on its own: its arguments
  outs          \* a function called on its own: its outcomes

vars == << jobs, intents, clock, ticks, pc, j, job_intents, taken, dur,
           timebins, keepq, warned, intents0, cands, minKept, tsRead, fedLog,
           nowRead, wk_in, wk_out, nm, nm_out, args, outs >>

\* bounds of the model
MaxSnaps == 2
MaxTicks == 1

\* the UTC offset of the local time zone
LocalOff == 2 * 3600

\* how far the clock advances in one step of the model
TickStep == 30 * 60 * Res

Classes == << "h", "d", "w", "m", "y" >>

Stamp(y, m, d, h, mi, s, off) ==
  [y |-> y, m |-> m, d |-> d, h |-> h, mi |-> mi, s |-> s, off |-> off]

\* DateTime::parse_from_rfc3339 of the stamp in a snapshot name
StampTime(n) == and_hms(n.off, DaysFromCivil(n.y, n.m, n.d), n.h, n.mi, n.s)

\* a snapshot name <base><sep><yyyy-mm-ddThh:mm:ss><zone>: sep is the character
\* after the base name; zone "num" stands for the stamp's offset as +hh:mm,
\* "Z" for the letter Z, "none" for nothing
SnapName(base, sep, stamp, zone) ==
  [base |-> base, sep |-> sep, stamp |-> stamp, zone |-> zone]

DaysInMonth(y, m) ==
  IF m = 12 THEN 31 ELSE DaysFromCivil(y, m + 1, 1) - DaysFromCivil(y, m, 1)

ParseError == [k |-> "err", v |-> "ParseError"]

\* DateTime::parse_from_rfc3339 of a text <stamp><zone>
parse_from_rfc3339(stamp, zone) ==
  IF zone = "none" THEN ParseError
  ELSE IF \/ stamp.m < 1 \/ stamp.m > 12 \/ stamp.d < 1
          \/ stamp.h > 23 \/ stamp.mi > 59 \/ stamp.s > 59
    THEN ParseError
  ELSE IF stamp.d > DaysInMonth(stamp.y, stamp.m) THEN ParseError
  ELSE Ok(StampTime(stamp))

\* time_re.captures(&self.name).get(1): the stamp behind a literal dot, with
\* the numeric offset when there is one; a Z is not part of the group
time_re_captures(name) ==
  IF name.sep = "."
    THEN << [stamp |-> name.stamp, zone |-> IF name.zone = "num" THEN "num" ELSE "none"] >>
    ELSE << >>

\* Intent::timestamp: both unwraps
Intent_timestamp(name) ==
  LET c == time_re_captures(name)
  IN  IF c = << >> THEN Panic("captures")
      ELSE LET r == parse_from_rfc3339(c[1].stamp, c[1].zone)
           IN  IF r.k = "err" THEN Panic("parse_from_rfc3339") ELSE r

\* ... for a name it returns for
timestamp(int) == Intent_timestamp(int.name).v

\* now.to_rfc3339_opts(SecondsFormat::Secs, true): the local fields, seconds;
\* use_z = true writes the offset +00:00 as Z
to_rfc3339_zone(now) == IF now.off = 0 THEN "Z" ELSE "num"

to_rfc3339_secs(now) ==
  LET c   == CivilFromDays(LocalDay(now))
      sod == (LocalTicks(now) % (86400 * Res)) \div Res
  IN  Stamp(c.y, c.m, c.d, sod \div 3600, (sod % 3600) \div 60, sod % 60, now.off)

Now(c) == [t |-> c, off |-> LocalOff]

\* Path::file_name: << >> (None) for the root and for a path that ends in ..
file_name(path) ==
  CASE path = "/a" -> << "a" >> [] path = "/b" -> << "b" >> [] OTHER -> << >>

\* file_name().unwrap().to_str().unwrap() where there is a file name
Basename(path) == file_name(path)[1]

Idx(n) == [k \in 1..n |-> k]

\* gather_create_intents: one Create intent per job whose subvolume is confirmed
gather_create_intents(js, now, confirmed) ==
  LET mk(k) == [intent |-> "Create", subvolume |-> js[k].subvolume,
                target |-> js[k].target,
                name |-> SnapName(Basename(js[k].subvolume), ".",
                                  to_rfc3339_secs(now), to_rfc3339_zone(now)),
                job |-> k]
      keep(k) == k \in confirmed
      ks == SelectSeq(Idx(Len(js)), keep)
  IN  [x \in 1..Len(ks) |-> mk(ks[x])]

\* gather_create_intents as a call: tests[k] is what btrfs::is_subvolume
\* returns for job k ("true", "false" or "err"); file_name().unwrap() is
\* evaluated for the jobs whose test is true
gather_create_call(js, now, tests) ==
  LET confirmed == { k \in 1..Len(js) : tests[k] = "true" }
  IN  IF \E k \in confirmed : file_name(js[k].subvolume) = << >>
        THEN Panic("file_name")
        ELSE Ok(gather_create_intents(js, now, confirmed))

\* the pattern <basename>.\d{4}-\d{2}-\d{2}T\d{2}:\d{2}:\d{2}([+-]\d{2}:\d{2})?
\* is not anchored: any character may follow the base name, anything the stamp
re_is_match(basename, n) == n.base = basename

\* gather_delete_intents: per job, one Delete intent per directory of the
\* target, in read_dir order, whose name matches the job's pattern
RECURSIVE gather_delete_intents(_, _, _)
gather_delete_intents(js, k, dir) ==
  IF k > Len(js) THEN << >>
  ELSE
    LET match(n) == re_is_match(Basename(js[k].subvolume), n)
        names == SelectSeq(dir, match)
        mk(n) == [intent |-> "Delete", subvolume |-> js[k].subvolume,
                  target |-> << js[k].target, n >>, name |-> n, job |-> k]
    IN  [x \in 1..Len(names) |-> mk(names[x])] \o gather_delete_intents(js, k + 1, dir)

----------------------------------------------------------------------------
(* timebins.rs: TimeBins                                                   *)

EmptyMap == [x \in {} |-> 0]

\* an insert that would leave an occupied key alone (as entry().or_insert
\* does): the first candidate stored would keep the slot
InsertIfVacant(map, key, i) == map @@ (key :> i)

\* HashMap::insert: the value of an occupied key is replaced
Insert(map, key, i) == (key :> i) @@ map

\* a loop 0..n instead of 0..=n: n boundaries
BinsExclusive(this, n, step) == [x \in 1..n |-> this.t - (x - 1) * step]

\* the instants this - 0*step, ..., this - n*step of one class
Bins(this, n, step) == [x \in 1..(n + 1) |-> this.t - (x - 1) * step]

Contains(seq, v) == \E x \in 1..Len(seq) : seq[x] = v

TimeBins_new(retention, now) ==
  LET wk == duration_trunc_week(now)
  IN  IF wk.k = "panic" THEN wk
      ELSE Ok([h  |-> EmptyMap,
               rh |-> Bins(duration_trunc_hour(now), retention.h, TicksPerHour),
               d  |-> EmptyMap,
               rd |-> Bins(duration_trunc_day(now), retention.d, 24 * TicksPerHour),
               w  |-> EmptyMap,
               rw |-> Bins(wk.v, retention.w, 7 * 24 * TicksPerHour),
               m  |-> EmptyMap,
               rm |-> Bins(duration_trunc_month(now), retention.m, 4 * 7 * 24 * TicksPerHour),
               y  |-> EmptyMap,
               ry |-> Bins(duration_trunc_year(now), retention.y, 365 * 24 * TicksPerHour)])

\* the live boundaries and the bucket map of one class
LiveOf(tb, c) ==
  CASE c = "h" -> tb.rh [] c = "d" -> tb.rd [] c = "w" -> tb.rw
    [] c = "m" -> tb.rm [] c = "y" -> tb.ry

\* the truncations store computes, given the week truncation succeeded
Truncs(ts, wk) ==
  [h |-> duration_trunc_hour(ts).t, d |-> duration_trunc_day(ts).t, w |-> wk.t,
   m |-> duration_trunc_month(ts).t, y |-> duration_trunc_year(ts).t]

\* a chain that takes the hour class without the test of its boundaries
FirstClassUnchecked(tb, tr, x) == << "h", tr["h"] >>

\* a chain that tests the classes from the year down to the hour
FirstClassFromYear(tb, tr, x) ==
  LET M == { z \in 1..5 :
               Contains(LiveOf(tb, << "h", "d", "w", "m", "y" >>[z]),
                        tr[<< "h", "d", "w", "m", "y" >>[z]]) }
      z == CHOOSE a \in M : \A b \in M : a >= b
  IN  IF M = {} THEN << >>
      ELSE << << "h", "d", "w", "m", "y" >>[z], tr[<< "h", "d", "w", "m", "y" >>[z]] >>

\* the if / else-if chain of store: << class, bucket >> of the first class
\* whose live boundaries contain the truncation, << >> when there is none
RECURSIVE FirstClass(_, _, _)
FirstClass(tb, tr, x) ==
  IF x > Len(Classes) THEN << >>
  ELSE IF Contains(LiveOf(tb, Classes[x]), tr[Classes[x]]) THEN << Classes[x], tr[Classes[x]] >>
  ELSE FirstClass(tb, tr, x + 1)

Landing(tb, ts) ==
  LET wk == duration_trunc_week(ts)
  IN  IF wk.k = "panic" THEN wk ELSE Ok(FirstClass(tb, Truncs(ts, wk.v), 1))

\* a store whose last branch, the one of the years, inserts nothing
StoreAtNoYear(tb, l, i) ==
  IF l.k = "panic" THEN l
  ELSE IF l.v = << >> \/ l.v[1] = "y" THEN Ok(tb)
  ELSE Ok([tb EXCEPT ![l.v[1]] = (l.v[2] :> i) @@ @])

\* the insert of store, l being the outcome of the truncations and the chain
StoreAt(tb, l, i) ==
  IF l.k = "panic" THEN l
  ELSE IF l.v = << >> THEN Ok(tb)
  ELSE Ok([tb EXCEPT ![l.v[1]] = Insert(@, l.v[2], i)])

store(tb, ts, i) == StoreAt(tb, Landing(tb, ts), i)

\* set_keep visits h.values(), then d, w, m, y: the class it is at
KeepClass(q) ==
  LET left == { x \in 1..Len(Classes) : q[Classes[x]] # {} }
  IN  Classes[CHOOSE x \in left : \A z \in left : x <= z]

KeepLeft(q) == \E x \in 1..Len(Classes) : q[Classes[x]] # {}

----------------------------------------------------------------------------
(* intent.rs: delete_to_keep_intents                                       *)

\* a filter that would let every intent not yet Keep through
IsNotKeep(int) == int.intent # "Keep"

IsDelete(int) == int.intent = "Delete"

\* a comparison of the targets alone
SameTarget(js, int, job) == js[int.job].target = job.target

\* int.borrow().job == job: Job derives PartialEq, the jobs compare by value
SameJob(js, int, job) == js[int.job] = job

\* a map over all intents before any filter
TimestampReadsAll(ints) == 1..Len(ints)

\* the intents timestamp() is called on when the iterator is collected
TimestampReads(ints) == { i \in 1..Len(ints) : IsDelete(ints[i]) }

\* a sort by the key itself: e goes behind the elements <= e
InsertAsc(sorted, e) ==
  LET n == Cardinality({ x \in 1..Len(sorted) : sorted[x].ts.t <= e.ts.t })
  IN  SubSeq(sorted, 1, n) \o << e >> \o SubSeq(sorted, n + 1, Len(sorted))

\* sort_by_key(|t| Reverse(t.0)) is stable: e goes behind the elements >= e
InsertDesc(sorted, e) ==
  LET n == Cardinality({ x \in 1..Len(sorted) : sorted[x].ts.t >= e.ts.t })
  IN  SubSeq(sorted, 1, n) \o << e >> \o SubSeq(sorted, n + 1, Len(sorted))

RECURSIVE SortFrom(_, _, _)
SortFrom(s, x, acc) ==
  IF x > Len(s) THEN acc ELSE SortFrom(s, x + 1, InsertDesc(acc, s[x]))

sort_by_key_reverse(s) == SortFrom(s, 1, << >>)

\* the (timestamp, intent) pairs of the job's Delete intents, newest first
CollectJobIntents(ints, js, job) ==
  LET sel(i) == IsDelete(ints[i]) /\ SameJob(js, ints[i], job)
      ks == SelectSeq(Idx(Len(ints)), sel)
  IN  sort_by_key_reverse([x \in 1..Len(ks) |-> [ts |-> timestamp(ints[ks[x]]), i |-> ks[x]]])

NoDur == [k |-> "none", v |-> 0]

\* variants of the min rule: no fail-safe for a Timespan that does not parse;
\* Count and Latest taking one element more; a Timespan taking the candidates
\* older than the cut-off
MinTakesNoFailSafe(min, d, tk, ts, now) ==
  CASE min.k = "All"      -> TRUE
    [] min.k = "Latest"   -> tk < 1
    [] min.k = "Count"    -> tk < min.n
    [] min.k = "Timespan" -> IF d.k = "err" THEN FALSE ELSE ts.t > now - d.v

MinTakesCountPlusOne(min, d, tk, ts, now) ==
  CASE min.k = "All"      -> TRUE
    [] min.k = "Latest"   -> tk < 1
    [] min.k = "Count"    -> tk <= min.n
    [] min.k = "Timespan" -> IF d.k = "err" THEN TRUE ELSE ts.t > now - d.v

MinTakesLatestTwo(min, d, tk, ts, now) ==
  CASE min.k = "All"      -> TRUE
    [] min.k = "Latest"   -> tk < 2
    [] min.k = "Count"    -> tk < min.n
    [] min.k = "Timespan" -> IF d.k = "err" THEN TRUE ELSE ts.t > now - d.v

MinTakesOlder(min, d, tk, ts, now) ==
  CASE min.k = "All"      -> TRUE
    [] min.k = "Latest"   -> tk < 1
    [] min.k = "Count"    -> tk < min.n
    [] min.k = "Timespan" -> IF d.k = "err" THEN TRUE ELSE ts.t < now - d.v

\* does the adapter of the job's min rule (for_each, take, take_while) yield
\* the next element, whose timestamp is ts, after tk elements, at instant now
MinTakes(min, d, tk, ts, now) ==
  CASE min.k = "All"      -> TRUE
    [] min.k = "Latest"   -> tk < 1
    [] min.k = "Count"    -> tk < min.n
    [] min.k = "Timespan" -> IF d.k = "err" THEN TRUE ELSE ts.t > now - d.v

\* (*int).borrow_mut().intent = IntentType::Keep
Promote(ints, i) == [ints EXCEPT ![i].intent = "Keep"]

----------------------------------------------------------------------------
(* The inputs of a run                                                     *)

Min(k, str, n) == [k |-> k, s |-> str, n |-> n]

MinRules ==
  { Min("All", << >>, 0), Min("Latest", << >>, 0) }
  \cup { Min("Count", << >>, n) : n \in 1..MaxSnaps }
  \cup { Min("Timespan", << "1", "h" >>, 0), Min("Timespan", << "h", "1" >>, 0) }

Retentions == { << >>, << "1", "h" >>, << "1", "x" >> }

Job(subvolume, min, retention) ==
  [subvolume |-> subvolume, target |-> "/t",
   preserve |-> [retention |-> retention, min |-> min]]

JobsA == { Job("/a", min, r) : min \in MinRules, r \in Retentions }
JobB  == Job("/b", Min("Latest", << >>, 0), << >>)

\* a job of /a alone, twice in the list, or next to a job of /b
JobLists ==
  UNION { { << a >>, << a, a >>, << a, JobB >>, << JobB, a >> } : a \in JobsA }

\* the instants a run starts at: a Wednesday morning, and the Monday of
\* ISO week 2025-W01, which lies in 2024
Nows ==
  { StampTime(Stamp(2022, 2, 16, 10, 40, 0, LocalOff)).t + 1,
    StampTime(Stamp(2024, 12, 30, 10, 40, 0, LocalOff)).t + 1 }

\* the snapshots of /a on disk: two in the hour of the first now, one in the
\* hour before, one of the day before, of the month, of the year, of the year
\* before, and one of Monday 2019-12-30
StampsA ==
  { Stamp(2022, 2, 16, 10, 20, 0, LocalOff), Stamp(2022, 2, 16, 10, 5, 0, LocalOff),
    Stamp(2022, 2, 16, 9, 50, 0, LocalOff), Stamp(2022, 2, 15, 23, 0, 0, LocalOff),
    Stamp(2022, 2, 5, 12, 0, 0, LocalOff), Stamp(2022, 1, 10, 12, 0, 0, LocalOff),
    Stamp(2021, 1, 20, 10, 20, 0, LocalOff), Stamp(2019, 12, 30, 12, 0, 0, LocalOff) }

StampsB == { Stamp(2022, 2, 16, 10, 20, 0, LocalOff) }

Names ==
  { SnapName("a", ".", st, "num") : st \in StampsA }
  \cup { SnapName("b", ".", st, "num") : st \in StampsB }

\* what the target directory holds
Disks == { D \in SUBSET Names : Cardinality(D) <= MaxSnaps }

\* read_dir order: the names oldest first
RECURSIVE read_dir(_)
read_dir(D) ==
  IF D = {} THEN << >>
  ELSE LET n == CHOOSE x \in D : \A z \in D :
                  \/ StampTime(x.stamp).t < StampTime(z.stamp).t
                  \/ StampTime(x.stamp).t = StampTime(z.stamp).t /\ (x.base = "a" \/ z.base = "b")
       IN  << n >> \o read_dir(D \ {n})

NoTimeBins == [h |-> EmptyMap, rh |-> << >>, d |-> EmptyMap, rd |-> << >>,
               w |-> EmptyMap, rw |-> << >>, m |-> EmptyMap, rm |-> << >>,
               y |-> EmptyMap, ry |-> << >>]

NoKeepQ == [h |-> {}, d |-> {}, w |-> {}, m |-> {}, y |-> {}]

NoWeek == [k |-> "none", v |-> 0]

Init ==
  \E jl \in JobLists, D \in Disks, c \in Nows :
    /\ jobs = jl
    /\ intents = gather_create_intents(jl, Now(c), 1..Len(jl))
                   \o gather_delete_intents(jl, 1, read_dir(D))
    /\ intents0 = intents
    /\ clock = c
    /\ ticks = 0
    /\ pc = "job"
    /\ j = 1
    /\ job_intents = << >>
    /\ taken = 0
    /\ dur = NoDur
    /\ timebins = NoTimeBins
    /\ keepq = NoKeepQ
    /\ warned = << >>
    /\ cands = {}
    /\ minKept = [x \in 1..Len(jl) |-> {}]
    /\ tsRead = {}
    /\ fedLog = << >>
    /\ nowRead = << >>
    /\ wk_in = Now(c)
    /\ wk_out = NoWeek
    /\ nm = << >>
    /\ nm_out = NoWeek
    /\ args = << >>
    /\ outs = << >>

----------------------------------------------------------------------------
(* One pass of delete_to_keep_intents, step by step                        *)

hist == << intents0, wk_in, wk_out, nm, nm_out, args, outs >>

ReadsNow == jobs[j].preserve.min.k = "Timespan" /\ dur.k = "ok"

\* the end of the loop body: on to the next job, or the end of the pass
JobEnd ==
  /\ j' = j + 1
  /\ pc' = IF j + 1 > Len(jobs) THEN "done" ELSE "job"

\* lines 204-213 and the head of the match: the job's candidates are
\* collected and sorted, a Timespan rule is parsed
JobBegin ==
  /\ pc = "job"
  /\ LET job == jobs[j]
         ji  == CollectJobIntents(intents, jobs, job)
         d   == IF job.preserve.min.k = "Timespan"
                  THEN duration_from_str(job.preserve.min.s) ELSE NoDur
     IN  /\ job_intents' = ji
         /\ dur' = d
         /\ warned' = IF d.k = "err" THEN Append(warned, [job |-> j, stage |-> "min"])
                      ELSE warned
         /\ cands' = { ji[x].i : x \in 1..Len(ji) }
  /\ tsRead' = tsRead \cup TimestampReads(intents)
  /\ taken' = 0
  /\ nowRead' = << >>
  /\ pc' = "min"
  /\ UNCHANGED << jobs, intents, clock, ticks, j, timebins, keepq, minKept, fedLog, hist >>

\* Local::now() is read by the take_while of a parsed Timespan
ReadsClockInMin ==
  pc = "min" /\ job_intents # << >> /\ jobs[j].preserve.min.k = "Timespan" /\ dur.k = "ok"

\* ... and by TimeBins::new when the retention parses
ReadsClockInNew ==
  pc = "retention" /\ Retention_from_str(jobs[j].preserve.retention).k = "ok"

\* time passes before the next reading of the clock
Tick ==
  /\ ticks < MaxTicks
  /\ ReadsClockInMin \/ ReadsClockInNew
  /\ clock' = clock + TickStep
  /\ ticks' = ticks + 1
  /\ UNCHANGED << jobs, intents, pc, j, job_intents, taken, dur, timebins, keepq,
                  warned, cands, minKept, tsRead, fedLog, nowRead, hist >>

\* the min rule's adapter yields the next candidate, which becomes Keep
MinPromote ==
  /\ pc = "min"
  /\ job_intents # << >>
  /\ MinTakes(jobs[j].preserve.min, dur, taken, Head(job_intents).ts, clock)
  /\ intents' = Promote(intents, Head(job_intents).i)
  /\ minKept' = [minKept EXCEPT ![j] = @ \cup {Head(job_intents).i}]
  /\ job_intents' = Tail(job_intents)
  /\ taken' = taken + 1
  /\ nowRead' = IF ReadsNow THEN Append(nowRead, clock) ELSE nowRead
  /\ UNCHANGED << jobs, clock, ticks, pc, j, dur, timebins, keepq, warned, cands,
                  tsRead, fedLog, hist >>

\* the adapter is exhausted: the min-preserve stage is over
MinDone ==
  /\ pc = "min"
  /\ IF job_intents = << >> THEN TRUE
     ELSE ~MinTakes(jobs[j].preserve.min, dur, taken, Head(job_intents).ts, clock)
  /\ nowRead' = IF ReadsNow /\ job_intents # << >> THEN Append(nowRead, clock) ELSE nowRead
  /\ job_intents' = << >>
  /\ pc' = "retention"
  /\ UNCHANGED << jobs, intents, clock, ticks, j, taken, dur, timebins, keepq, warned,
                  cands, minKept, tsRead, fedLog, hist >>

\* lines 252-269: the candidates are collected again; the retention does not
\* parse
RetentionFailed ==
  /\ pc = "retention"
  /\ Retention_from_str(jobs[j].preserve.retention).k = "err"
  /\ job_intents' = CollectJobIntents(intents, jobs, jobs[j])
  /\ tsRead' = tsRead \cup TimestampReads(intents)
  /\ warned' = Append(warned, [job |-> j, stage |-> "retention"])
  /\ pc' = "failsafe"
  /\ UNCHANGED << jobs, intents, clock, ticks, j, taken, dur, timebins, keepq, cands,
                  minKept, fedLog, nowRead, hist >>

\* line 267: for safety every candidate left becomes Keep
FailSafePromote ==
  /\ pc = "failsafe"
  /\ job_intents # << >>
  /\ intents' = Promote(intents, Head(job_intents).i)
  /\ job_intents' = Tail(job_intents)
  /\ UNCHANGED << jobs, clock, ticks, pc, j, taken, dur, timebins, keepq, warned, cands,
                  minKept, tsRead, fedLog, nowRead, hist >>

FailSafeDone ==
  /\ pc = "failsafe"
  /\ job_intents = << >>
  /\ JobEnd
  /\ UNCHANGED << jobs, intents, clock, ticks, job_intents, taken, dur, timebins, keepq,
                  warned, cands, minKept, tsRead, fedLog, nowRead, hist >>

\* lines 252-271: the candidates are collected again; the retention parses
\* and TimeBins::new builds the live boundaries from Local::now()
TimeBinsNew ==
  /\ pc = "retention"
  /\ LET r  == Retention_from_str(jobs[j].preserve.retention)
         tb == TimeBins_new(r.v, Now(clock))
     IN  /\ r.k = "ok"
         /\ pc' = IF tb.k = "panic" THEN "panic" ELSE "store"
         /\ timebins' = IF tb.k = "panic" THEN timebins ELSE tb.v
  /\ job_intents' = CollectJobIntents(intents, jobs, jobs[j])
  /\ tsRead' = tsRead \cup TimestampReads(intents)
  /\ UNCHANGED << jobs, intents, clock, ticks, j, taken, dur, keepq, warned, cands,
                  minKept, fedLog, nowRead, hist >>

\* line 276: the next candidate is stored
Store ==
  /\ pc = "store"
  /\ job_intents # << >>
  /\ LET e == Head(job_intents)
         l == Landing(timebins, e.ts)
         r == StoreAt(timebins, l, e.i)
     IN  /\ pc' = IF r.k = "panic" THEN "panic" ELSE "store"
         /\ timebins' = IF r.k = "panic" THEN timebins ELSE r.v
         /\ fedLog' = Append(fedLog, [i |-> e.i, pass |-> j,
                                       slot |-> IF l.k = "panic" THEN << "panic" >> ELSE l.v])
  /\ job_intents' = Tail(job_intents)
  /\ UNCHANGED << jobs, intents, clock, ticks, j, taken, dur, keepq, warned, cands,
                  minKept, tsRead, nowRead, hist >>

\* line 281: set_keep begins
StoreDone ==
  /\ pc = "store"
  /\ job_intents = << >>
  /\ keepq' = [c \in DOMAIN NoKeepQ |-> DOMAIN timebins[c]]
  /\ pc' = "set_keep"
  /\ UNCHANGED << jobs, intents, clock, ticks, j, job_intents, taken, dur, timebins,
                  warned, cands, minKept, tsRead, fedLog, nowRead, hist >>

\* set_keep: the intent of the next slot, in HashMap order, becomes Keep
SetKeepStep ==
  /\ pc = "set_keep"
  /\ KeepLeft(keepq)
  /\ \E key \in keepq[KeepClass(keepq)] :
       /\ intents' = Promote(intents, timebins[KeepClass(keepq)][key])
       /\ keepq' = [keepq EXCEPT ![KeepClass(keepq)] = @ \ {key}]
  /\ UNCHANGED << jobs, clock, ticks, pc, j, job_intents, taken, dur, timebins, warned,
                  cands, minKept, tsRead, fedLog, nowRead, hist >>

SetKeepDone ==
  /\ pc = "set_keep"
  /\ ~KeepLeft(keepq)
  /\ JobEnd
  /\ UNCHANGED << jobs, intents, clock, ticks, job_intents, taken, dur, timebins, keepq,
                  warned, cands, minKept, tsRead, fedLog, nowRead, hist >>

Next ==
  \/ JobBegin
  \/ Tick
  \/ MinPromote
  \/ MinDone
  \/ RetentionFailed
  \/ FailSafePromote
  \/ FailSafeDone
  \/ TimeBinsNew
  \/ Store
  \/ StoreDone
  \/ SetKeepStep
  \/ SetKeepDone

Spec == Init /\ [][Next]_vars

----------------------------------------------------------------------------
(* Properties of a pass                                                    *)

Ts(i) == timestamp(intents0[i]).t

MinOf(a, b) == IF a < b THEN a ELSE b

\* the min stage of the job the loop is at is over
AfterMin == pc \in {"retention", "failsafe", "store", "set_keep", "panic"}

\* the intents that are candidates of the job at position x: Delete as
\* gathered, of a job equal to it
CandidatesOf(x) ==
  { i \in DOMAIN intents0 :
      intents0[i].intent = "Delete" /\ jobs[intents0[i].job] = jobs[x] }

BadTimespan(job) ==
  job.preserve.min.k = "Timespan" /\ duration_from_str(job.preserve.min.s).k = "err"

BadRetention(job) == Retention_from_str(job.preserve.retention).k = "err"

\* the store call fedLog[x] put its candidate into a slot
Landed(x) == fedLog[x].slot # << >> /\ fedLog[x].slot # << "panic" >>

\* ... and no later store call of the same pass put another one there
LastInSlot(x) ==
  /\ Landed(x)
  /\ ~\E y \in DOMAIN fedLog :
        y > x /\ fedLog[y].pass = fedLog[x].pass /\ fedLog[y].slot = fedLog[x].slot

\* the store calls of the current pass that went to slot key of class c
SlotFeeds(c, key) ==
  { x \in DOMAIN fedLog : fedLog[x].pass = j /\ fedLog[x].slot = << c, key >> }

\* C1: in every step of a pass -- of the min stage, the fail-safe, store or
\* set_keep -- the list of intents keeps its length, and an intent whose kind
\* changes was Delete before the step and is Keep after it.
C1_OnlyDeleteToKeep ==
  [][ /\ DOMAIN intents' = DOMAIN intents
      /\ \A i \in DOMAIN intents :
           intents'[i].intent # intents[i].intent =>
             intents[i].intent = "Delete" /\ intents'[i].intent = "Keep" ]_vars

\* a pass has ended in which the min stage promoted one intent and set_keep
\* another, next to a Create intent
C1_Witness ==
  /\ pc = "done"
  /\ \E i \in DOMAIN intents : intents[i].intent = "Create"
  /\ \E x \in DOMAIN minKept : minKept[x] # {}
  /\ \E x \in DOMAIN fedLog :
       LastInSlot(x) /\ intents[fedLog[x].i].intent = "Keep"
                     /\ intents0[fedLog[x].i].intent = "Delete"

\* C2: a Create intent is at all times what it was when gathered, in every
\* field; timestamp() has not been called on it; it was never passed to store.
C2_CreateUntouched ==
  \A i \in DOMAIN intents0 :
    intents0[i].intent = "Create" =>
      /\ i \in DOMAIN intents /\ intents[i] = intents0[i]
      /\ i \notin tsRead
      /\ \A x \in DOMAIN fedLog : fedLog[x].i # i

\* a pass has ended that read timestamps, stored candidates and left a Create
\* intent next to a Keep and a Delete intent
C2_Witness ==
  /\ pc = "done"
  /\ tsRead # {} /\ fedLog # << >>
  /\ \E i \in DOMAIN intents : intents[i].intent = "Create"
  /\ \E i \in DOMAIN intents : intents[i].intent = "Keep"
  /\ \E i \in DOMAIN intents : intents[i].intent = "Delete"

\* C3: when the Timespan of a job's min rule does not parse, the min stage
\* promotes every candidate of the job, so from the end of that stage on none
\* of them is Delete, whatever the retention is; a warning is written, the
\* stage is followed by the retention stage, and a pass that ends has visited
\* every job.
C3_TimespanFailSafe ==
  /\ [](/\ (AfterMin /\ BadTimespan(jobs[j])) =>
             /\ minKept[j] = cands
             /\ \A i \in CandidatesOf(j) : intents[i].intent = "Keep"
             /\ \E w \in DOMAIN warned : warned[w] = [job |-> j, stage |-> "min"]
        /\ pc = "done" =>
             /\ j = Len(jobs) + 1
             /\ \A x \in DOMAIN jobs : BadTimespan(jobs[x]) =>
                  \A i \in CandidatesOf(x) : intents[i].intent = "Keep")
  /\ [][(pc = "min" /\ BadTimespan(jobs[j])) => pc' \in {"min", "retention"}]_vars

\* a pass has ended in which a job with an unparseable Timespan had its two
\* candidates promoted by the min stage and a later, different job was processed
C3_Witness ==
  /\ pc = "done"
  /\ \E x \in DOMAIN jobs :
       /\ BadTimespan(jobs[x])
       /\ minKept[x] # {}
       /\ \E y \in DOMAIN jobs : y > x /\ jobs[y] # jobs[x] /\ minKept[y] # {}

\* C4: when the retention of a job does not parse, the fail-safe promotes every
\* candidate still Delete: at the end of the job's pass none of its candidates
\* is Delete. The steps of the fail-safe change no intent of a job that differs
\* from that job, a warning is written, the loop goes on to the next job, and
\* a pass that ends has visited every job.
C4_RetentionFailSafe ==
  /\ [](/\ pc = "failsafe" =>
             /\ BadRetention(jobs[j])
             /\ \E w \in DOMAIN warned : warned[w] = [job |-> j, stage |-> "retention"]
        /\ pc = "done" =>
             /\ j = Len(jobs) + 1
             /\ \A x \in DOMAIN jobs : BadRetention(jobs[x]) =>
                  \A i \in CandidatesOf(x) : intents[i].intent = "Keep"
        /\ \A x \in DOMAIN jobs :
             (BadRetention(jobs[x]) /\ (x < j \/ pc = "done")) =>
               \A i \in CandidatesOf(x) : intents[i].intent = "Keep")
  /\ [][pc = "failsafe" =>
          /\ \A i \in DOMAIN intents :
               jobs[intents[i].job] # jobs[j] => intents'[i] = intents[i]
          /\ pc' \in {"failsafe", "job", "done"}
          /\ pc' # "failsafe" => j' = j + 1]_vars

\* a pass has ended in which the fail-safe of a job with an unparseable
\* retention promoted a candidate its min stage had left Delete, while the
\* candidate of a different job in the list was processed as well
C4_Witness ==
  /\ pc = "done"
  /\ \E x \in DOMAIN jobs :
       /\ BadRetention(jobs[x])
       /\ \E i \in CandidatesOf(x) : i \notin minKept[x] /\ intents[i].intent = "Keep"
       /\ \E y \in DOMAIN jobs : jobs[y] # jobs[x] /\ minKept[y] # {}

\* C5 as stated: at the end of a pass, of the k candidates of a job with
\* min = Count(n) exactly the min(n, k) newest are Keep and the others Delete.
C5_ExactlyCountKept ==
  pc = "done" =>
    \A x \in DOMAIN jobs :
      jobs[x].preserve.min.k = "Count" =>
        LET kept == { i \in CandidatesOf(x) : intents[i].intent = "Keep" }
        IN  /\ Cardinality(kept) = MinOf(jobs[x].preserve.min.n, Cardinality(CandidatesOf(x)))
            /\ \A i \in CandidatesOf(x) \ kept : intents[i].intent = "Delete"
            /\ \A p \in kept, q \in CandidatesOf(x) \ kept : Ts(p) >= Ts(q)

\* C5, as the code has it: the min stage of a job with min = Count(n) and k
\* candidates promotes exactly min(n, k) of them, none older than a candidate
\* it leaves; those it leaves are still Delete when the stage ends and are
\* handed to the retention stage, which may promote more; those it promoted
\* are Keep from then on.
C5_CountIsAFloor ==
  /\ (AfterMin /\ jobs[j].preserve.min.k = "Count") =>
       /\ minKept[j] \subseteq cands
       /\ Cardinality(minKept[j]) = MinOf(jobs[j].preserve.min.n, Cardinality(cands))
       /\ \A p \in minKept[j], q \in cands \ minKept[j] : Ts(p) >= Ts(q)
       /\ pc = "retention" => \A q \in cands \ minKept[j] : intents[q].intent = "Delete"
  /\ \A x \in DOMAIN jobs :
       jobs[x].preserve.min.k = "Count" =>
         \A p \in minKept[x] : intents[p].intent = "Keep"

\* a pass of a single job with min = Count(n) has ended; the job had more
\* than n candidates, and one that the min stage left is Keep all the same
C5_Witness ==
  /\ pc = "done"
  /\ Len(jobs) = 1
  /\ jobs[1].preserve.min.k = "Count"
  /\ Cardinality(cands) > jobs[1].preserve.min.n
  /\ Cardinality(minKept[1]) = jobs[1].preserve.min.n
  /\ \E i \in cands \ minKept[1] : intents[i].intent = "Keep"

\* C6 as stated: at the end of a pass an intent is Delete only if it was a
\* candidate, no min stage promoted it and it landed in no live bucket; every
\* candidate stored into a live bucket is Keep.
C6_EveryLandedKept ==
  pc = "done" =>
    /\ \A x \in DOMAIN fedLog : Landed(x) => intents[fedLog[x].i].intent = "Keep"
    /\ \A i \in DOMAIN intents :
         intents[i].intent = "Delete" =>
           /\ intents0[i].intent = "Delete"
           /\ \A x \in DOMAIN jobs : i \notin minKept[x]
           /\ \A x \in DOMAIN fedLog : fedLog[x].i = i => ~Landed(x)

\* C6, as the code has it: at the end of a pass an intent is Delete only if it
\* was a candidate and in every pass of a job equal to its own no min stage
\* promoted it, the retention parsed, and it was stored and either landed in
\* no live bucket or was replaced in its slot by a candidate stored later;
\* the candidate stored last into a slot is Keep.
C6_LastLandedKept ==
  pc = "done" =>
    /\ \A x \in DOMAIN fedLog : LastInSlot(x) => intents[fedLog[x].i].intent = "Keep"
    /\ \A i \in DOMAIN intents :
         intents[i].intent = "Delete" =>
           /\ intents0[i].intent = "Delete"
           /\ \A x \in DOMAIN jobs :
                i \in CandidatesOf(x) =>
                  /\ i \notin minKept[x]
                  /\ ~BadRetention(jobs[x])
                  /\ \E y \in DOMAIN fedLog :
                       fedLog[y].i = i /\ fedLog[y].pass = x /\ ~LastInSlot(y)

\* a pass has ended in which two candidates were stored into the same slot:
\* the one stored first is still Delete, the one stored last is Keep
C6_Witness ==
  /\ pc = "done"
  /\ \E x, y \in DOMAIN fedLog :
       /\ x < y /\ Landed(x) /\ LastInSlot(y)
       /\ fedLog[x].pass = fedLog[y].pass /\ fedLog[x].slot = fedLog[y].slot
       /\ intents[fedLog[x].i].intent = "Delete"
       /\ intents[fedLog[y].i].intent = "Keep"

\* C7 as stated: the candidate stored first into a slot keeps it: with the
\* candidates stored newest first, a slot holds the newest candidate that fell
\* into it, and that one is Keep after set_keep while the older ones of the
\* slot stay Delete.
C7_FirstStoredWins ==
  pc \in {"store", "set_keep"} =>
    \A c \in DOMAIN NoKeepQ : \A key \in DOMAIN timebins[c] :
      \A x \in SlotFeeds(c, key) :
        /\ timebins[c][key] = fedLog[x].i <=> (\A y \in SlotFeeds(c, key) : x <= y)
        /\ Ts(timebins[c][key]) >= Ts(fedLog[x].i)

\* C7, as the code has it: the candidate stored last into a slot holds it:
\* with the candidates stored newest first that is the oldest candidate that
\* fell into the slot; when set_keep is through, it is Keep and the others of
\* the slot were not promoted by it.
C7_LastStoredWins ==
  pc \in {"store", "set_keep"} =>
    /\ \A x \in DOMAIN fedLog :
         (fedLog[x].pass = j /\ Landed(x)) =>
           fedLog[x].slot[2] \in DOMAIN timebins[fedLog[x].slot[1]]
    /\ \A x, y \in DOMAIN fedLog :
         (x < y /\ fedLog[x].pass = j /\ fedLog[y].pass = j) =>
           Ts(fedLog[x].i) >= Ts(fedLog[y].i)
    /\ \A c \in DOMAIN NoKeepQ : \A key \in DOMAIN timebins[c] :
         /\ SlotFeeds(c, key) # {}
         /\ \A x \in SlotFeeds(c, key) :
              /\ timebins[c][key] = fedLog[x].i <=> (\A y \in SlotFeeds(c, key) : y <= x)
              /\ Ts(timebins[c][key]) <= Ts(fedLog[x].i)
              /\ (pc = "set_keep" /\ ~KeepLeft(keepq)) =>
                   intents[fedLog[x].i].intent =
                     IF timebins[c][key] = fedLog[x].i THEN "Keep" ELSE "Delete"

\* set_keep is through with a slot that two candidates fell into: the newer
\* one, stored first, is Delete, the older one holds the slot and is Keep
C7_Witness ==
  /\ pc = "set_keep" /\ ~KeepLeft(keepq)
  /\ \E c \in DOMAIN NoKeepQ : \E key \in DOMAIN timebins[c] :
       \E x, y \in SlotFeeds(c, key) :
         /\ x < y
         /\ Ts(fedLog[x].i) > Ts(fedLog[y].i)
         /\ timebins[c][key] = fedLog[y].i
         /\ intents[fedLog[x].i].intent = "Delete"
         /\ intents[fedLog[y].i].intent = "Keep"

\* C8: with min = All the min stage promotes every candidate of the job: none
\* of them is Delete from the end of that stage on. With min = Latest the min
\* stage promotes the single newest candidate, and none when the job has no
\* candidate; the one it promoted is Keep from then on.
C8_AllAndLatest ==
  /\ (AfterMin /\ jobs[j].preserve.min.k = "All") =>
       /\ minKept[j] = cands
       /\ \A i \in CandidatesOf(j) : intents[i].intent = "Keep"
  /\ (AfterMin /\ jobs[j].preserve.min.k = "Latest") =>
       IF cands = {} THEN minKept[j] = {}
       ELSE \E p \in cands : minKept[j] = {p} /\ \A q \in cands : Ts(p) >= Ts(q)
  /\ (pc = "retention" /\ jobs[j].preserve.min.k = "Latest") =>
       \A q \in cands \ minKept[j] : intents[q].intent = "Delete"
  /\ \A x \in DOMAIN jobs :
       /\ (jobs[x].preserve.min.k = "All" /\ (x < j \/ pc = "done")) =>
            \A i \in CandidatesOf(x) : intents[i].intent = "Keep"
       /\ jobs[x].preserve.min.k = "Latest" =>
            \A p \in minKept[x] : intents[p].intent = "Keep"

\* a pass has ended over a job with min = All and a job with min = Latest,
\* each with one candidate, which its min stage promoted
C8_Witness ==
  /\ pc = "done"
  /\ \E x, y \in DOMAIN jobs :
       /\ jobs[x].preserve.min.k = "All" /\ Cardinality(minKept[x]) = 1
       /\ jobs[y].preserve.min.k = "Latest" /\ Cardinality(minKept[y]) = 1

Boundaries(tb, c) ==
  CASE c = "h" -> tb.rh [] c = "d" -> tb.rd [] c = "w" -> tb.rw
    [] c = "m" -> tb.rm [] c = "y" -> tb.ry

\* C18: once TimeBins::new has returned, through every store and set_keep:
\* each bucket of each class holds one intent, a candidate of the job; every
\* occupied key is one of the live boundaries of its class, so a class has
\* no more occupied buckets than boundaries; and no step of store or
\* set_keep changes a boundary list.
C18_TimeBinsInvariant ==
  /\ [](pc \in {"store", "set_keep"} =>
          \A c \in {"h", "d", "w", "m", "y"} :
            /\ \A key \in DOMAIN timebins[c] :
                 /\ \E x \in 1..Len(Boundaries(timebins, c)) : Boundaries(timebins, c)[x] = key
                 /\ timebins[c][key] \in CandidatesOf(j)
            /\ Cardinality(DOMAIN timebins[c]) <= Len(Boundaries(timebins, c)))
  /\ [][(pc \in {"store", "set_keep"}) =>
          (\A c \in {"h", "d", "w", "m", "y"} :
             Boundaries(timebins', c) = Boundaries(timebins, c))]_vars

\* two candidates have been stored into the same bucket, which holds one of
\* them, and set_keep has begun
C18_Witness ==
  /\ pc = "set_keep"
  /\ \E c \in {"h", "d", "w", "m", "y"} : \E key \in DOMAIN timebins[c] :
       /\ Cardinality(SlotFeeds(c, key)) = 2
       /\ \E x \in 1..Len(Boundaries(timebins, c)) : Boundaries(timebins, c)[x] = key

\* the step is a call of store that returns
StoreReturns == pc = "store" /\ job_intents # << >> /\ pc' = "store"

\* C19: store tests the classes in the order hour, day, week, month, year
\* and writes the candidate into the bucket of the first class whose live
\* boundaries contain the candidate's truncation: one slot of that class is
\* written, no slot of another class, lower or higher; when no class
\* matches, nothing changes.
C19_FirstMatchingClass ==
  [][StoreReturns =>
      (LET e     == Head(job_intents)
           order == << "h", "d", "w", "m", "y" >>
           tr    == [h |-> duration_trunc_hour(e.ts).t,
                     d |-> duration_trunc_day(e.ts).t,
                     w |-> duration_trunc_week(e.ts).v.t,
                     m |-> duration_trunc_month(e.ts).t,
                     y |-> duration_trunc_year(e.ts).t]
           M     == { x \in 1..5 : \E z \in 1..Len(Boundaries(timebins, order[x])) :
                                     Boundaries(timebins, order[x])[z] = tr[order[x]] }
       IN  IF M = {} THEN timebins' = timebins
           ELSE LET c == order[CHOOSE x \in M : \A z \in M : x <= z]
                IN  /\ timebins'[c] =
                         [key \in DOMAIN timebins[c] \cup {tr[c]} |->
                            IF key = tr[c] THEN e.i ELSE timebins[c][key]]
                    /\ \A f \in DOMAIN timebins \ {c} : timebins'[f] = timebins[f])]_vars

\* a candidate outside the live hours has been stored in the bucket of the
\* current day; the buckets of the week, month and year, which contain it
\* too, are empty
C19_Witness ==
  /\ pc = "store" /\ fedLog # << >>
  /\ LET l == fedLog[Len(fedLog)]
     IN  /\ l.pass = j /\ Landed(Len(fedLog)) /\ l.slot[1] = "d"
         /\ timebins.d[l.slot[2]] = l.i
         /\ DOMAIN timebins.w = {} /\ DOMAIN timebins.m = {} /\ DOMAIN timebins.y = {}
         /\ duration_trunc_year(Now(clock)).t = duration_trunc_year([t |-> Ts(l.i), off |-> LocalOff]).t

\* C21: the jobs are processed one after another in list order; within a
\* job the min-preserve stage is over before TimeBins::new and the first
\* store; a candidate the min stage of the job promoted is never passed to
\* store in that pass and occupies no bucket; the candidates are passed to
\* store in non-increasing order of their timestamps; set_keep begins only
\* when every candidate has been stored, on a TimeBins whose maps were empty
\* when the job's first store began and which holds candidates stored in
\* this pass alone.
C21_StageOrder ==
  /\ [](/\ \A x \in DOMAIN fedLog :
             /\ \A p \in 1..fedLog[x].pass : fedLog[x].i \notin minKept[p]
             /\ fedLog[x].pass <= j
             /\ \A z \in DOMAIN fedLog :
                  x < z => /\ fedLog[x].pass <= fedLog[z].pass
                           /\ fedLog[x].pass = fedLog[z].pass
                                => Ts(fedLog[x].i) >= Ts(fedLog[z].i)
        /\ pc \in {"store", "set_keep"} =>
             \A c \in {"h", "d", "w", "m", "y"} : \A key \in DOMAIN timebins[c] :
               /\ timebins[c][key] \notin minKept[j]
               /\ \E x \in DOMAIN fedLog : fedLog[x].pass = j /\ fedLog[x].i = timebins[c][key]
        /\ pc = "set_keep" => job_intents = << >>
        /\ (pc = "done") <=> (j > Len(jobs)))
  /\ [][/\ j' = j \/ (j' = j + 1 /\ pc \in {"failsafe", "set_keep"})
        /\ (pc' = "min") => (pc \in {"job", "min"})
        /\ (pc' = "store" /\ pc # "store") =>
             (pc = "retention" /\ \A c \in {"h", "d", "w", "m", "y"} : DOMAIN timebins'[c] = {})
        /\ (pc' = "set_keep" /\ pc # "set_keep") => pc = "store"
        /\ (minKept'[j] # minKept[j]) => pc = "min"
        /\ (fedLog' # fedLog) => pc = "store"]_vars

\* a job is in set_keep: its min stage promoted a candidate, and two
\* candidates of different instants were then stored in its pass, the newer
\* first
C21_Witness ==
  /\ pc = "set_keep" /\ minKept[j] # {}
  /\ \E x, z \in DOMAIN fedLog :
       /\ x < z /\ fedLog[x].pass = j /\ fedLog[z].pass = j
       /\ Ts(fedLog[x].i) > Ts(fedLog[z].i)

\* C22: when the pass is over, each snapshot directory is the target of at
\* most one Delete or Keep intent, and no directory is the target of a Keep
\* intent and of a Delete intent at once.
C22_OneIntentPerDirectory ==
  pc = "done" =>
    \A x, z \in DOMAIN intents :
      ( /\ x # z
        /\ intents[x].intent \in {"Delete", "Keep"}
        /\ intents[z].intent \in {"Delete", "Keep"} )
        => intents[x].target # intents[z].target

\* C24: one pass evaluates against a single value of now: the instants the
\* Timespan rule of a job read for its candidates are all the same instant,
\* and the live boundaries of the job's TimeBins are the ones TimeBins::new
\* builds for that instant.
C24_SingleNow ==
  /\ \A x \in DOMAIN nowRead : nowRead[x] = nowRead[1]
  /\ (pc \in {"store", "set_keep"} /\ nowRead # << >>) =>
       \A x \in 1..Len(Classes) :
         LiveOf(timebins, Classes[x])
           = LiveOf(TimeBins_new(Retention_from_str(jobs[j].preserve.retention).v,
                                 Now(nowRead[1])).v, Classes[x])

----------------------------------------------------------------------------
(* duration_trunc_week on its own: the timestamps around the turn of the   *)
(* years 2019 .. 2026 and of a week in June, at the first and at the last  *)
(* second of the day, with and without a sub-second part                   *)

WeekDates ==
  { << y, 12, d >> : y \in 2019..2025, d \in 28..31 }
  \cup { << y, 1, d >> : y \in 2020..2026, d \in 1..4 }
  \cup { << 2022, 6, d >> : d \in 11..13 }

WeekInputs ==
  { [t   |-> and_hms(off, DaysFromCivil(c[1], c[2], c[3]), hms[1], hms[2], hms[3]).t + sub,
     off |-> off] :
      c \in WeekDates, hms \in { << 0, 0, 0 >>, << 23, 59, 59 >> },
      sub \in 0..(Res - 1), off \in { 0, LocalOff } }

InitWeek ==
  /\ wk_in \in WeekInputs
  /\ wk_out = NoWeek
  /\ jobs = << >> /\ intents = << >> /\ intents0 = << >>
  /\ clock = 0 /\ ticks = 0 /\ pc = "week" /\ j = 1
  /\ job_intents = << >> /\ taken = 0 /\ dur = NoDur
  /\ timebins = NoTimeBins /\ keepq = NoKeepQ /\ warned = << >>
  /\ cands = {} /\ minKept = << >> /\ tsRead = {} /\ fedLog = << >> /\ nowRead = << >>
  /\ nm = << >> /\ nm_out = NoWeek
  /\ args = << >> /\ outs = << >>

TruncWeek ==
  /\ pc = "week"
  /\ wk_out' = duration_trunc_week(wk_in)
  /\ pc' = IF wk_out'.k = "panic" THEN "panic" ELSE "returned"
  /\ UNCHANGED << jobs, intents, clock, ticks, j, job_intents, taken, dur, timebins,
                  keepq, warned, intents0, cands, minKept, tsRead, fedLog, nowRead, wk_in,
                  nm, nm_out, args, outs >>

NextWeek == TruncWeek

SpecWeek == InitWeek /\ [][NextWeek]_vars

\* C10 as stated: duration_trunc_week is total: whatever the timestamp, at a
\* turn of the year or with a sub-second part, the call returns and does not
\* panic.
C10_TruncWeekTotal == wk_out.k # "panic"

\* the dates the week truncation is given for, with the date of the result
WeekExamples ==
  { << << 2022, 1, 1 >>, << 2021, 12, 27 >> >>, << << 2022, 1, 3 >>, << 2022, 1, 3 >> >>,
    << << 2020, 12, 29 >>, << 2020, 12, 28 >> >>, << << 2021, 1, 2 >>, << 2020, 12, 28 >> >> }

\* C11: whenever duration_trunc_week returns for ts, the result is in the
\* offset of ts, at 00:00:00 of a Monday, and r <= ts < r + 7 days; a
\* timestamp of 2022-01-01 gives 2021-12-27, of 2022-01-03 gives 2022-01-03,
\* of 2020-12-29 gives 2020-12-28 and of 2021-01-02 gives 2020-12-28.
C11_WeekStart ==
  pc = "returned" =>
    /\ wk_out.k = "ok"
    /\ wk_out.v.off = wk_in.off
    /\ LocalTicks(wk_out.v) % (86400 * Res) = 0
    /\ (LocalDay(wk_out.v) + 3) % 7 = 0
    /\ wk_out.v.t <= wk_in.t
    /\ wk_in.t < wk_out.v.t + 7 * 86400 * Res
    /\ \A e \in WeekExamples :
         LocalDay(wk_in) = DaysFromCivil(e[1][1], e[1][2], e[1][3]) =>
           LocalDay(wk_out.v) = DaysFromCivil(e[2][1], e[2][2], e[2][3])

\* the call has returned for a timestamp of Saturday 2021-01-02, which lies
\* in week 53 of 2020
C11_Witness ==
  /\ pc = "returned"
  /\ LocalDay(wk_in) = DaysFromCivil(2021, 1, 2)
  /\ LocalDay(wk_out.v) = DaysFromCivil(2020, 12, 28)

----------------------------------------------------------------------------
(* Intent::timestamp on its own: a directory name, found in the target or  *)
(* written there by an earlier run, is gathered and its timestamp taken    *)

\* stamps of a name: two dates that exist, February 30th, and digits that
\* are no date at all
NameFields ==
  { << 2022, 2, 16, 10, 20, 0 >>, << 2024, 2, 29, 23, 59, 59 >>, << 2021, 12, 31, 0, 0, 0 >>,
    << 2022, 2, 30, 10, 20, 0 >>, << 2022, 13, 45, 99, 99, 99 >> }

NameStamp(f, off) == Stamp(f[1], f[2], f[3], f[4], f[5], f[6], off)

\* the directory names of the target: of /a and of /b, with a dot or an
\* underscore after the base name, with an offset, a Z or neither
DiskNames ==
  { SnapName(b, sp, NameStamp(f, off), "num") :
      b \in {"a", "b"}, sp \in {".", "_"}, f \in NameFields, off \in {0, LocalOff} }
  \cup { SnapName(b, sp, NameStamp(f, 0), z) :
      b \in {"a", "b"}, sp \in {".", "_"}, f \in NameFields, z \in {"Z", "none"} }

\* the instants and local offsets of the run that created a snapshot
CreateNows ==
  { [t |-> StampTime(Stamp(2022, 2, 16, 10, 40, 0, off)).t + sub, off |-> off] :
      off \in {0, LocalOff}, sub \in 0..(Res - 1) }

JobOfA == Job("/a", Min("Latest", << >>, 0), << >>)

InitNames ==
  /\ pc = "target"
  /\ jobs = << JobOfA >>
  /\ nm = << >> /\ nm_out = NoWeek
  /\ intents = << >> /\ intents0 = << >>
  /\ clock = 0 /\ ticks = 0 /\ j = 1
  /\ job_intents = << >> /\ taken = 0 /\ dur = NoDur
  /\ timebins = NoTimeBins /\ keepq = NoKeepQ /\ warned = << >>
  /\ cands = {} /\ minKept = << >> /\ tsRead = {} /\ fedLog = << >> /\ nowRead = << >>
  /\ wk_in = Now(0) /\ wk_out = NoWeek
  /\ args = << >> /\ outs = << >>

rest == << jobs, clock, ticks, j, job_intents, taken, dur, timebins, keepq, warned,
          intents0, cands, minKept, tsRead, fedLog, nowRead, wk_in, wk_out,
          args, outs >>

\* an earlier run created the snapshot its Create intent names
CreatedEarlier ==
  /\ pc = "target"
  /\ \E now \in CreateNows :
       nm' = gather_create_intents(jobs, now, {1})[1].name
  /\ pc' = "on_disk"
  /\ UNCHANGED << intents, nm_out, rest >>

\* the directory is in the target for another reason
FoundInTarget ==
  /\ pc = "target"
  /\ nm' \in DiskNames
  /\ pc' = "on_disk"
  /\ UNCHANGED << intents, nm_out, rest >>

\* gather_delete_intents reads the target
GatherDelete ==
  /\ pc = "on_disk"
  /\ intents' = gather_delete_intents(jobs, 1, << nm >>)
  /\ pc' = IF intents' = << >> THEN "no_match" ELSE "gathered"
  /\ UNCHANGED << nm, nm_out, rest >>

\* timestamp() is called on the Delete intent
Timestamp ==
  /\ pc = "gathered"
  /\ nm_out' = Intent_timestamp(intents[1].name)
  /\ pc' = IF nm_out'.k = "panic" THEN "panic" ELSE "returned"
  /\ UNCHANGED << intents, nm, rest >>

NextNames == CreatedEarlier \/ FoundInTarget \/ GatherDelete \/ Timestamp

SpecNames == InitNames /\ [][NextNames]_vars

\* C12 as stated: timestamp() returns for every name gather_delete_intents
\* accepts, a name written by gather_create_intents included: it never aborts.
C12_TimestampReturns == nm_out.k # "panic"

----------------------------------------------------------------------------
(* duration_from_str and Retention::from_str on their own: a string is     *)
(* parsed by both.                                                         *)

\* the decimal numeral of n, as to_string writes it
RECURSIVE Dec(_)
Dec(n) ==
  LET DigitChar == << "0", "1", "2", "3", "4", "5", "6", "7", "8", "9" >>
  IN  IF n < 10 THEN << DigitChar[n + 1] >>
      ELSE Append(Dec(n \div 10), DigitChar[(n % 10) + 1])

\* the components 3h 2d 1w 4m 5y of the set present from u on, sep between
\* two of them
RECURSIVE Spell(_, _, _, _)
Spell(present, u, sep, first) ==
  IF u > 5 THEN << >>
  ELSE IF u \notin present THEN Spell(present, u + 1, sep, first)
  ELSE (IF first THEN << >> ELSE sep)
         \o Dec(<< 3, 2, 1, 4, 5 >>[u]) \o << << "h", "d", "w", "m", "y" >>[u] >>
         \o Spell(present, u + 1, sep, FALSE)

\* The strings to parse: s, and want, the five numbers it spells in the
\* order h, d, w, m, y (<< >> when it spells none).
\*  InOrder: any of the components 3h 2d 1w 4m 5y, in order
\*  Padded: white space the pattern takes with no component on one side
\*  NotInOrder: another order, a repeated component, a character of no
\*    component, white space before h or after y, a non-ASCII digit
\*  Wide: numbers next to the ends of the integer ranges and of Duration's
Strings ==
  LET Str(s, want) == [s |-> s, want |-> want]
      Letters == << "h", "d", "w", "m", "y" >>
      InOrder ==
        { Str(Spell(present, 1, sep, TRUE),
              [u \in 1..5 |-> IF u \in present THEN << 3, 2, 1, 4, 5 >>[u] ELSE 0]) :
            present \in SUBSET (1..5),
            sep \in { << >>, << " " >>, << "u00a0", " " >> } }
      Padded ==
        { Str(<< " " >>, << 0, 0, 0, 0, 0 >>),
          Str(<< " ", "3", "d" >>, << 0, 3, 0, 0, 0 >>),
          Str(<< "3", "h", " " >>, << 3, 0, 0, 0, 0 >>),
          Str(<< "0", "0", "7", "w" >>, << 0, 0, 7, 0, 0 >>) }
      NotInOrder ==
        { Str(s, << >>) : s \in
            { << "3", "d", "3", "h" >>, << "5", "y", "3", "h" >>,
              << "1", "w", "2", "d" >>, << "3", "h", "3", "h" >>, << "3", "x" >>,
              << "3", "h", "!" >>, << "x", "3", "h" >>, << "3" >>, << "h" >>,
              << "-", "3", "h" >>, << "3", " ", "h" >>, << " ", "3", "h" >>,
              << "5", "y", " " >>, << "3", "H" >>, << "3", ".", "5", "h" >>,
              << "u0663", "h" >>, << "3", "h", "u0663", "d" >> } }
      WideValues ==
        { I64_MAX \div 3600, I64_MAX \div 3600 + 1, I64_MAX \div 365 + 1,
          I64_MAX \div 4 + 1, (USIZE_MAX + 1) \div 4,
          I64_MAX, I64_MAX + 1, USIZE_MAX, USIZE_MAX + 1 }
      Wide ==
        { Str(Dec(n) \o << Letters[u] >>, [v \in 1..5 |-> IF v = u THEN n ELSE 0]) :
            n \in WideValues, u \in 1..5 }
        \cup
        { Str(Dec(I64_MAX \div 3600) \o << "h" >> \o Dec(n) \o << "d" >>,
              << I64_MAX \div 3600, n, 0, 0, 0 >>) :
            n \in { 1, I64_MAX \div 86400, USIZE_MAX + 1 } }
        \cup
        { Str(Dec(I64_MAX) \o << "h" >> \o Dec(USIZE_MAX + 1) \o << "d" >>,
              << I64_MAX, USIZE_MAX + 1, 0, 0, 0 >>) }
  IN  InOrder \cup Padded \cup NotInOrder \cup Wide

InitParse ==
  /\ args \in Strings
  /\ outs = [dur |-> NoWeek, ret |-> NoWeek]
  /\ pc = "parse"
  /\ jobs = << >> /\ intents = << >> /\ intents0 = << >>
  /\ clock = 0 /\ ticks = 0 /\ j = 1
  /\ job_intents = << >> /\ taken = 0 /\ dur = NoDur
  /\ timebins = NoTimeBins /\ keepq = NoKeepQ /\ warned = << >>
  /\ cands = {} /\ minKept = << >> /\ tsRead = {} /\ fedLog = << >> /\ nowRead = << >>
  /\ wk_in = Now(0) /\ wk_out = NoWeek
  /\ nm = << >> /\ nm_out = NoWeek

pass == << jobs, intents, clock, ticks, j, job_intents, taken, dur, timebins, keepq,
          warned, intents0, cands, minKept, tsRead, fedLog, nowRead, wk_in, wk_out,
          nm, nm_out >>

DurationFromStr ==
  /\ pc = "parse" /\ outs.dur.k = "none"
  /\ \E build \in Builds :
       outs' = [outs EXCEPT !.dur = duration_from_str_in(build, args.s)]
  /\ UNCHANGED << pc, args, pass >>

RetentionFromStr ==
  /\ pc = "parse" /\ outs.ret.k = "none"
  /\ outs' = [outs EXCEPT !.ret = Retention_from_str(args.s)]
  /\ UNCHANGED << pc, args, pass >>

NextParse == DurationFromStr \/ RetentionFromStr

SpecParse == InitParse /\ [][NextParse]_vars

Parsed == pc = "parse" /\ outs.dur.k # "none" /\ outs.ret.k # "none"

\* the elapsed time the five numbers stand for, in seconds: hours, days,
\* weeks, months of four weeks, years of 365 days
ElapsedSecs(w) ==
  3600 * w[1] + 86400 * w[2] + 604800 * w[3] + 2419200 * w[4] + 31536000 * w[5]

\* every term of the sum, and the sum, is within Duration's range
Fits(w) ==
  /\ w[1] <= DurationMaxSecs \div 3600
  /\ w[2] <= DurationMaxSecs \div 86400
  /\ w[3] <= DurationMaxSecs \div 604800
  /\ w[4] <= DurationMaxSecs \div 2419200
  /\ w[5] <= DurationMaxSecs \div 31536000
  /\ ElapsedSecs(w) <= DurationMaxSecs

\* C13 as stated: duration_from_str and Retention::from_str accept exactly
\* the same strings and reject every other one with a parse error: one
\* returns Ok exactly when the other does, and Err exactly when the other
\* does.
C13_SameStrings ==
  Parsed => /\ (outs.dur.k = "ok") <=> (outs.ret.k = "ok")
            /\ (outs.dur.k = "err") <=> (outs.ret.k = "err")

\* C13, amended: both parsers match the same pattern.  A string that is not
\* of the form [<int>h][<int>d][<int>w][<int>m][<int>y], white space
\* allowed between components, or whose digits are not ASCII, is rejected
\* by both with a parse error.  For a string of that form,
\* Retention::from_str returns the five numbers (0 for an absent component)
\* unless one exceeds usize; duration_from_str returns
\* h hours + d days + w weeks + 4m weeks + 365y days whenever every term and
\* the sum are within Duration's range, and returns a parse error only when
\* a number exceeds i64, a narrower range than that of Retention::from_str
\* (it does so when that number is the first one of the string).
C13_SamePattern ==
  Parsed =>
    LET w == args.want
    IN  IF w = << >> THEN outs.dur.k = "err" /\ outs.ret.k = "err"
        ELSE /\ IF \A u \in 1..5 : w[u] <= USIZE_MAX
                  THEN outs.ret.k = "ok" /\ outs.ret.v = [h |-> w[1], d |-> w[2], w |-> w[3], m |-> w[4], y |-> w[5]]
                  ELSE outs.ret.k = "err"
             /\ Fits(w) => outs.dur.k = "ok" /\ outs.dur = Ok(Res * ElapsedSecs(w))
             /\ (outs.dur.k = "err") => \E u \in 1..5 : w[u] > I64_MAX
             /\ (\E u \in 1..5 : w[u] > I64_MAX /\ \A v \in 1..(u - 1) : w[v] = 0)
                  => outs.dur.k = "err"

\* "3h2d1w4m5y" has been parsed by both: h = 3, d = 2, w = 1, m = 4, y = 5
\* and 3 h + 2 d + 1 w + 16 w + 1825 d
C13_Witness ==
  /\ Parsed
  /\ args.s = << "3", "h", "2", "d", "1", "w", "4", "m", "5", "y" >>
  /\ outs.ret.k = "ok" /\ outs.ret.v = [h |-> 3, d |-> 2, w |-> 1, m |-> 4, y |-> 5]
  /\ outs.dur.k = "ok"
  /\ outs.dur = Ok(Res * (3 * 3600 + 2 * 86400 + 604800 + 16 * 604800 + 1825 * 86400))

\* C14 as stated: integer overflow is a parse error value: when a number
\* exceeds the integer range, or a product 4 * m, 365 * y, or the conversion
\* into the duration, or the sum exceeds the range, the parser returns Err;
\* it neither aborts nor returns a wrapped value.
C14_OverflowIsErr ==
  Parsed /\ args.want # << >> =>
    /\ ~Fits(args.want) => outs.dur.k = "err"
    /\ (\E u \in 1..5 : args.want[u] > USIZE_MAX) => outs.ret.k = "err"

----------------------------------------------------------------------------
(* A pass over one job with an hourly retention alone: retention <h>h, a   *)
(* min rule Count(0), and k snapshots one hour apart, the newest ten       *)
(* minutes before the instant TimeBins::new reads.                         *)

\* a Wednesday morning; the small hours of Monday 2024-01-01 and of
\* Saturday 2022-01-01
GfsNows ==
  { StampTime(Stamp(2022, 2, 16, 10, 40, 0, LocalOff)).t + 1,
    StampTime(Stamp(2024, 1, 1, 2, 40, 0, LocalOff)).t + 1,
    StampTime(Stamp(2022, 1, 1, 2, 40, 0, LocalOff)).t + 1 }

InitGfs ==
  \E h \in 0..2, k \in 2..5, c \in GfsNows :
    LET D == { SnapName("a", ".",
                 to_rfc3339_secs(Now(c - 600 * Res - x * TicksPerHour)), "num") :
                 x \in 0..(k - 1) }
    IN  /\ k > h + 1
        /\ args = [h |-> h, k |-> k]
        /\ outs = << >>
        /\ jobs = << Job("/a", Min("Count", << >>, 0), Dec(h) \o << "h" >>) >>
        /\ intents = gather_delete_intents(jobs, 1, read_dir(D))
        /\ intents0 = intents
        /\ clock = c
        /\ ticks = 0 /\ pc = "job" /\ j = 1
        /\ job_intents = << >> /\ taken = 0 /\ dur = NoDur
        /\ timebins = NoTimeBins /\ keepq = NoKeepQ /\ warned = << >>
        /\ cands = {} /\ minKept = << {} >> /\ tsRead = {} /\ fedLog = << >>
        /\ nowRead = << >>
        /\ wk_in = Now(c) /\ wk_out = NoWeek
        /\ nm = << >> /\ nm_out = NoWeek

NextGfs ==
  \/ JobBegin
  \/ MinDone
  \/ TimeBinsNew
  \/ Store
  \/ StoreDone
  \/ SetKeepStep
  \/ SetKeepDone

SpecGfs == InitGfs /\ [][NextGfs]_vars

\* the candidates that are Keep
Kept == { i \in DOMAIN intents : intents0[i].intent = "Delete" /\ intents[i].intent = "Keep" }

\* C15 as stated: with hourly retention h and k > h + 1 candidates one hour
\* apart, the newest in the current hour, h + 1 candidates are Keep at the
\* end of the pass and k - h - 1 stay Delete.
C15_HourBucketsOnly ==
  pc = "done" =>
    /\ Cardinality(Kept) = args.h + 1
    /\ Cardinality({ i \in DOMAIN intents : intents[i].intent = "Delete" })
         = args.k - args.h - 1

\* C15, amended: the h + 1 newest candidates, one per live hour bucket, are
\* Keep.  Each class with count 0 still has one live bucket, the current
\* day, week, month and year: an older candidate lands in the first of
\* these that contains it, and the oldest candidate of such a bucket is Keep
\* as well.  A candidate stays Delete when it is in none of them or an
\* older one is in the same bucket.
C15_HourBucketsAndCurrent ==
  pc = "done" =>
    LET now == Now(clock)
        Of(t) == [t |-> t, off |-> LocalOff]
        Monday(t) == LocalDay(Of(t)) - WeekdayOf(LocalDay(Of(t)))
        Month(t) == << CivilFromDays(LocalDay(Of(t))).y, CivilFromDays(LocalDay(Of(t))).m >>
        Hour(t) == LocalTicks(Of(t)) \div TicksPerHour
        Class(i) ==
          IF Hour(clock) - Hour(Ts(i)) <= args.h THEN << "h", Hour(Ts(i)) >>
          ELSE IF LocalDay(Of(Ts(i))) = LocalDay(now) THEN << "d" >>
          ELSE IF Monday(Ts(i)) = Monday(clock) THEN << "w" >>
          ELSE IF Month(Ts(i)) = Month(clock) THEN << "m" >>
          ELSE IF Month(Ts(i))[1] = Month(clock)[1] THEN << "y" >>
          ELSE << >>
    IN  \A i \in DOMAIN intents :
          (intents[i].intent = "Keep") <=>
            /\ Class(i) # << >>
            /\ ~\E o \in DOMAIN intents : Ts(o) < Ts(i) /\ Class(o) = Class(i)

\* retention 2h and five candidates: the pass is over, the three newest are
\* Keep, and so is the oldest one, of the current day
C15_Witness ==
  /\ pc = "done" /\ args = [h |-> 2, k |-> 5]
  /\ Cardinality(Kept) = 4
  /\ \A i \in DOMAIN intents : (intents[i].intent = "Delete") <=> (i = 2)

----------------------------------------------------------------------------
(* Functions called on their own: args.fn names the function.              *)

\* gather_create_intents: one or two jobs of /a, /b or the root, what
\* btrfs::is_subvolume answers for each, and the clock
CreateCalls ==
  { [fn |-> "gather_create_intents", jobs |-> js, tests |-> ts, now |-> now] :
      js \in UNION { [1..n -> { Job(sv, Min("Latest", << >>, 0), << >>) :
                                  sv \in {"/a", "/b", "/"} }] : n \in 1..2 },
      ts \in UNION { [1..n -> {"true", "false", "err"}] : n \in 1..2 },
      now \in CreateNows }

\* duration_trunc_hour, _day, _month, _year: the class and two timestamps,
\* around the ends of an hour, a day, a month and a year, in two offsets
TruncCalls ==
  LET At == { << 2022, 12, 31, 15, 38, 17 >>, << 2022, 12, 31, 15, 0, 0 >>,
              << 2022, 12, 31, 15, 59, 59 >>, << 2022, 12, 31, 16, 0, 0 >>,
              << 2022, 12, 31, 17, 38, 17 >>, << 2022, 12, 31, 0, 0, 0 >>,
              << 2022, 12, 30, 23, 59, 59 >>, << 2022, 12, 1, 0, 0, 0 >>,
              << 2022, 11, 30, 23, 59, 59 >>, << 2022, 1, 1, 0, 0, 0 >>,
              << 2021, 12, 31, 23, 59, 59 >>, << 2023, 1, 1, 0, 30, 0 >>,
              << 2020, 2, 29, 12, 0, 0 >> }
      Times == { [t   |-> StampTime(Stamp(f[1], f[2], f[3], f[4], f[5], f[6], off)).t + sub,
                  off |-> off] :
                   f \in At, off \in {0, LocalOff}, sub \in 0..(Res - 1) }
  IN  { [fn |-> "duration_trunc", class |-> c, a |-> a, b |-> b] :
          c \in {"h", "d", "m", "y"}, a \in Times, b \in Times }

\* TimeBins::new: the retention counts, one count for all classes, and the
\* instant Local::now() returns
NewCalls ==
  { [fn |-> "TimeBins::new", now |-> now,
     retention |-> [h |-> n, d |-> n, w |-> n, m |-> n, y |-> n]] :
      n \in 0..3,
      now \in { StampTime(Stamp(f[1], f[2], f[3], 10, 40, 0, off)) :
                  f \in { << 2022, 2, 16 >>, << 2022, 3, 31 >>, << 2021, 6, 15 >>,
                          << 2020, 3, 1 >>, << 2023, 1, 1 >> },
                  off \in {0, LocalOff} } }

\* TimeBins::store on a fresh TimeBins: the retention counts, the instant of
\* Local::now(), and two names of one snapshot instant, a with the offset of
\* now in its stamp and b with another offset
StoreCalls ==
  { [fn |-> "TimeBins::store", now |-> Now(StampTime(Stamp(2022, 2, 16, 10, 40, 0, LocalOff)).t),
     retention |-> [h |-> n, d |-> n, w |-> n, m |-> n, y |-> n],
     a |-> SnapName("a", ".", st, "num"),
     b |-> SnapName("a", ".", to_rfc3339_secs([t |-> StampTime(st).t, off |-> off]), "num")] :
      n \in 0..3, st \in StampsA, off \in {LocalOff - 3600, 0} }

InitCalls ==
  /\ args \in { c \in CreateCalls : Len(c.jobs) = Len(c.tests) }
               \cup TruncCalls \cup NewCalls \cup StoreCalls
  /\ outs = NoWeek
  /\ pc = "call"
  /\ jobs = << >> /\ intents = << >> /\ intents0 = << >>
  /\ clock = 0 /\ ticks = 0 /\ j = 1
  /\ job_intents = << >> /\ taken = 0 /\ dur = NoDur
  /\ timebins = NoTimeBins /\ keepq = NoKeepQ /\ warned = << >>
  /\ cands = {} /\ minKept = << >> /\ tsRead = {} /\ fedLog = << >> /\ nowRead = << >>
  /\ wk_in = Now(0) /\ wk_out = NoWeek
  /\ nm = << >> /\ nm_out = NoWeek

GatherCreate ==
  /\ pc = "call" /\ args.fn = "gather_create_intents"
  /\ outs' = gather_create_call(args.jobs, args.now, args.tests)
  /\ pc' = IF outs'.k = "panic" THEN "panic" ELSE "returned"
  /\ UNCHANGED << args, pass >>

\* the truncation of args.class is applied to a, to b, and to the result
\* for a
Trunc ==
  /\ pc = "call" /\ args.fn = "duration_trunc"
  /\ LET T(ts) == CASE args.class = "h" -> duration_trunc_hour(ts)
                     [] args.class = "d" -> duration_trunc_day(ts)
                     [] args.class = "m" -> duration_trunc_month(ts)
                     [] args.class = "y" -> duration_trunc_year(ts)
     IN  outs' = Ok([a |-> T(args.a), b |-> T(args.b), aa |-> T(T(args.a))])
  /\ pc' = "returned"
  /\ UNCHANGED << args, pass >>

NewTimeBins ==
  /\ pc = "call" /\ args.fn = "TimeBins::new"
  /\ outs' = TimeBins_new(args.retention, args.now)
  /\ pc' = IF outs'.k = "panic" THEN "panic" ELSE "returned"
  /\ UNCHANGED << args, pass >>

\* the candidate named a and the candidate named b are each stored in a
\* TimeBins built for args.now: the timestamp parsed from the name, the
\* << class, bucket >> of the chain, and the TimeBins after the store
StoreNamed ==
  /\ pc = "call" /\ args.fn = "TimeBins::store"
  /\ LET tb == TimeBins_new(args.retention, args.now)
         ta == Intent_timestamp(args.a).v
         tn == Intent_timestamp(args.b).v
     IN  outs' = IF tb.k = "panic" THEN tb
                 ELSE Ok([a |-> [ts |-> ta, at |-> Landing(tb.v, ta), bins |-> store(tb.v, ta, 1)],
                          b |-> [ts |-> tn, at |-> Landing(tb.v, tn), bins |-> store(tb.v, tn, 1)]])
  /\ pc' = IF outs'.k = "panic" THEN "panic" ELSE "returned"
  /\ UNCHANGED << args, pass >>

NextCalls ==
  \/ GatherCreate
  \/ Trunc
  \/ NewTimeBins
  \/ StoreNamed

SpecCalls == InitCalls /\ [][NextCalls]_vars

\* C16 as stated: gather_create_intents returns, and what it returns is one
\* Create intent per job whose subvolume is confirmed, in the order of the
\* jobs, named <basename>.<now as RFC 3339 with seconds> and referring to
\* that job, and none for a job whose confirmation fails or reports false:
\* such a job is skipped, without aborting and without a change to the
\* intents of the other jobs.
C16_OneCreatePerConfirmedJob ==
  pc # "call" /\ args.fn = "gather_create_intents" =>
    /\ outs.k = "ok"
    /\ LET ok == { k \in 1..Len(args.jobs) : args.tests[k] = "true" }
       IN  /\ Len(outs.v) = Cardinality(ok)
           /\ \A k \in ok : \E x \in 1..Len(outs.v) :
                /\ outs.v[x].intent = "Create"
                /\ outs.v[x].job = k
                /\ outs.v[x].subvolume = args.jobs[k].subvolume
                /\ outs.v[x].target = args.jobs[k].target
                /\ outs.v[x].name.sep = "."
                /\ outs.v[x].name.stamp = to_rfc3339_secs(args.now)

\* the calendar fields of a class: year, month, day, hour of the local time
FieldsOf(class, ts) ==
  LET c == CivilFromDays(EpochDay + (ts.t + ts.off * Res) \div (86400 * Res))
      h == ((ts.t + ts.off * Res) % (86400 * Res)) \div (3600 * Res)
  IN  CASE class = "h" -> << c.y, c.m, c.d, h >>
        [] class = "d" -> << c.y, c.m, c.d, 0 >>
        [] class = "m" -> << c.y, c.m, 1, 0 >>
        [] class = "y" -> << c.y, 1, 1, 0 >>

\* the result r for ts is the start of the bucket of ts: in the offset of
\* ts, with the fields of the class those of ts and the lower ones at their
\* least, and not after ts
BucketStart(class, ts, r) ==
  /\ r.off = ts.off
  /\ r = StampTime(Stamp(FieldsOf(class, ts)[1], FieldsOf(class, ts)[2],
                         FieldsOf(class, ts)[3], FieldsOf(class, ts)[4], 0, 0, ts.off))
  /\ r.t <= ts.t

TruncReturned == pc = "returned" /\ args.fn = "duration_trunc"

\* C17 as stated: the truncation to hour, day, month, year returns the
\* start of the bucket of ts in the offset of ts, at or before ts, is
\* idempotent, and two timestamps truncate to the same value exactly when
\* they agree on the calendar fields of the class.
C17_SameBucketSameFields ==
  TruncReturned =>
    /\ BucketStart(args.class, args.a, outs.v.a)
    /\ outs.v.aa = outs.v.a
    /\ (outs.v.a.t = outs.v.b.t) <=> (FieldsOf(args.class, args.a) = FieldsOf(args.class, args.b))

\* C17, amended: ... and two timestamps of the same offset truncate to the
\* same value exactly when they agree on the calendar fields of the class
\* (timestamps of different offsets can agree on the fields and truncate to
\* different instants, and the other way round); the month truncation of
\* 2022-12-31T15:38:17 is 2022-12-01T00:00:00.
C17_SameOffsetSameFields ==
  TruncReturned =>
    /\ BucketStart(args.class, args.a, outs.v.a)
    /\ outs.v.aa = outs.v.a
    /\ args.a.off = args.b.off =>
         ((outs.v.a.t = outs.v.b.t)
            <=> (FieldsOf(args.class, args.a) = FieldsOf(args.class, args.b)))
    /\ args.class = "m" /\ args.a = StampTime(Stamp(2022, 12, 31, 15, 38, 17, LocalOff))
         => outs.v.a = StampTime(Stamp(2022, 12, 1, 0, 0, 0, LocalOff))

\* the month truncation of 2022-12-31T15:38:17 and of 2022-12-01T00:00:00
\* has returned, with the same value
C17_Witness ==
  /\ TruncReturned /\ args.class = "m"
  /\ args.a = StampTime(Stamp(2022, 12, 31, 15, 38, 17, LocalOff))
  /\ args.b = StampTime(Stamp(2022, 12, 1, 0, 0, 0, LocalOff))
  /\ outs.v.a = args.b /\ outs.v.b = args.b

\* C20 as stated: TimeBins::new yields, for each class with count c, c + 1
\* distinct boundaries, and every boundary is the start of a bucket of its
\* class in the offset of now: a full hour, a midnight, the midnight of a
\* Monday, of the first of a month, of a January 1.
C20_CanonicalBoundaries ==
  pc = "returned" /\ args.fn = "TimeBins::new" =>
    \A c \in {"h", "d", "w", "m", "y"} :
      LET r  == Boundaries(outs.v, c)
          At(x) == [t |-> r[x], off |-> args.now.off]
      IN  /\ Len(r) = args.retention[c] + 1
          /\ \A x, z \in 1..Len(r) : x # z => r[x] # r[z]
          /\ \A x \in 1..Len(r) :
               IF c = "w"
                 THEN /\ BucketStart("d", At(x), At(x))
                      /\ WeekdayOf(EpochDay + (r[x] + args.now.off * Res) \div (86400 * Res)) = 0
                 ELSE BucketStart(c, At(x), At(x))

\* the candidate of a stored TimeBins is set Keep by set_keep: it is a value
\* of one of the maps
KeptBy(r) == r.k = "ok" /\ \E x \in 1..Len(Classes) : DOMAIN r.v[Classes[x]] # {}

\* C23: the classification depends on the instant of a candidate alone: a
\* name whose stamp carries another UTC offset than the one of now, for the
\* same instant, is assigned the same << class, bucket >> and the same
\* Keep/Delete result as the name with the offset of now.
C23_OffsetBlind ==
  (pc = "returned" /\ args.fn = "TimeBins::store") =>
    /\ outs.v.a.ts.t = outs.v.b.ts.t
    /\ outs.v.a.at.k = outs.v.b.at.k
    /\ outs.v.a.at.v = outs.v.b.at.v
    /\ KeptBy(outs.v.a.bins) <=> KeptBy(outs.v.b.bins)

====
